---- MODULE Spec2Model ----
(***************************************************************************)
(* Moment detection engine of viral-clip-generator: the linguistic path    *)
(* (ViralMomentDetector in viral_moment_detector.py), the audio path       *)
(* (detect_energy_peaks in audio_energy_detector.py) and the page of       *)
(* app.py that chooses between them, as state machines.                    *)
(* Texts are sequences of one-character strings, times are whole seconds,  *)
(* and Python floats are IEEE-754 binary64 values computed exactly.        *)
(***************************************************************************)
EXTENDS Integers, Sequences, FiniteSets, Bags, TLC

(***************************************************************************)
(* Bounds of the model.                                                    *)
(***************************************************************************)
MaxSegs == 3

(***************************************************************************)
(* Python str operations used by the detector.                             *)
(***************************************************************************)
UpperChars == <<"A","B","C","D","E","F","G","H","I","J","K","L","M",
                "N","O","P","Q","R","S","T","U","V","W","X","Y","Z">>

LowerChars == <<"a","b","c","d","e","f","g","h","i","j","k","l","m",
                "n","o","p","q","r","s","t","u","v","w","x","y","z">>

\* a sequence given as a function, written out as a tuple
AsTuple(f) == SubSeq(f, 1, Len(f))

IsUpper(c) == \E k \in 1..26 : UpperChars[k] = c

LowerChar(c) ==
    IF IsUpper(c) THEN LowerChars[CHOOSE k \in 1..26 : UpperChars[k] = c]
    ELSE c

Lower(s) == AsTuple([k \in 1..Len(s) |-> LowerChar(s[k])])

\* str.split(): the maximal runs of non-whitespace characters
WordStarts(s) ==
    {k \in 1..Len(s) : s[k] # " " /\ (k = 1 \/ s[k - 1] = " ")}

WordEnd(s, k) ==
    CHOOSE e \in k..Len(s) :
        /\ \A x \in k..e : s[x] # " "
        /\ (e = Len(s) \/ s[e + 1] = " ")

Split(s) ==
    AsTuple([w \in 1..Cardinality(WordStarts(s)) |->
        LET k == CHOOSE x \in WordStarts(s) :
                     Cardinality({y \in WordStarts(s) : y <= x}) = w
        IN  SubSeq(s, k, WordEnd(s, k))])

\* str.strip(chars): drop leading and trailing characters that are in chars
RECURSIVE LStrip(_, _)
LStrip(s, chars) ==
    IF s # <<>> /\ Head(s) \in chars THEN LStrip(Tail(s), chars) ELSE s

RECURSIVE RStrip(_, _)
RStrip(s, chars) ==
    IF s # <<>> /\ s[Len(s)] \in chars
    THEN RStrip(SubSeq(s, 1, Len(s) - 1), chars)
    ELSE s

Strip(s, chars) == RStrip(LStrip(s, chars), chars)

\* the operator  sub in s
Contains(s, sub) ==
    \E k \in 1..(Len(s) - Len(sub) + 1) : SubSeq(s, k, k + Len(sub) - 1) = sub

\* str.count(c) for a single character
CountChar(s, c) == Cardinality({k \in 1..Len(s) : s[k] = c})

(***************************************************************************)
(* The keyword lexicons set up by __init__.                                *)
(***************************************************************************)
energy_words ==
    { <<"i","n","s","a","n","e">>,
      <<"c","r","a","z","y">>,
      <<"a","m","a","z","i","n","g">>,
      <<"w","o","w">>,
      <<"i","n","c","r","e","d","i","b","l","e">>,
      <<"u","n","b","e","l","i","e","v","a","b","l","e">>,
      <<"s","h","o","c","k","i","n","g">>,
      <<"m","i","n","d","-","b","l","o","w","i","n","g">>,
      <<"e","p","i","c">>,
      <<"h","u","g","e">>,
      <<"m","a","s","s","i","v","e">>,
      <<"l","e","g","e","n","d","a","r","y">>,
      <<"p","e","r","f","e","c","t">>,
      <<"b","r","i","l","l","i","a","n","t">>,
      <<"g","e","n","i","u","s">>,
      <<"a","b","s","o","l","u","t","e","l","y">>,
      <<"l","i","t","e","r","a","l","l","y">>,
      <<"e","x","p","l","o","s","i","o","n">>,
      <<"e","x","p","l","o","d","e">>,
      <<"d","e","s","t","r","o","y","e","d">>,
      <<"k","i","l","l","e","d">>,
      <<"c","r","u","s","h","e","d">>,
      <<"d","o","m","i","n","a","t","e","d">>,
      <<"b","e","s","t">>,
      <<"w","o","r","s","t">>,
      <<"n","e","v","e","r">>,
      <<"a","l","w","a","y","s">>,
      <<"e","v","e","r","y","o","n","e">>,
      <<"n","o","b","o","d","y">>,
      <<"h","o","l","y">>,
      <<"o","m","g">>,
      <<"w","h","a","t">>,
      <<"w","t","f">>,
      <<"d","a","m","n">>,
      <<"h","e","l","l">>,
      <<"g","o","d">> }

hook_phrases ==
    { <<"y","o","u"," ","w","o","n","'","t"," ","b","e","l","i","e","v","e">>,
      <<"w","a","i","t"," ","f","o","r"," ","i","t">>,
      <<"w","a","t","c","h"," ","t","h","i","s">>,
      <<"c","h","e","c","k"," ","t","h","i","s"," ","o","u","t">>,
      <<"n","o"," ","w","a","y">>,
      <<"a","r","e"," ","y","o","u"," ","k","i","d","d","i","n","g">>,
      <<"i"," ","c","a","n","'","t"," ","b","e","l","i","e","v","e">>,
      <<"t","h","i","s"," ","i","s"," ","c","r","a","z","y">>,
      <<"h","o","l","d"," ","o","n">>,
      <<"w","a","i","t">>,
      <<"s","t","o","p">>,
      <<"l","i","s","t","e","n">>,
      <<"l","o","o","k"," ","a","t"," ","t","h","i","s">>,
      <<"p","a","y"," ","a","t","t","e","n","t","i","o","n">>,
      <<"s","e","c","r","e","t">>,
      <<"n","o","b","o","d","y"," ","t","e","l","l","s"," ","y","o","u">>,
      <<"t","h","e","y"," ","d","o","n","'","t"," ","w","a","n","t">>,
      <<"h","i","d","d","e","n">>,
      <<"t","r","u","t","h">>,
      <<"f","i","n","a","l","l","y">>,
      <<"a","t"," ","l","a","s","t">>,
      <<"h","e","r","e"," ","i","t"," ","i","s">>,
      <<"t","h","e"," ","m","o","m","e","n","t">>,
      <<"r","e","v","e","a","l","e","d">> }

question_words ==
    { <<"w","h","a","t">>,
      <<"w","h","y">>,
      <<"h","o","w">>,
      <<"w","h","e","n">>,
      <<"w","h","e","r","e">>,
      <<"w","h","o">>,
      <<"w","h","i","c","h">> }

emotion_words ==
    { <<"l","o","v","e">>,
      <<"h","a","t","e">>,
      <<"a","n","g","r","y">>,
      <<"h","a","p","p","y">>,
      <<"s","a","d">>,
      <<"s","c","a","r","e","d">>,
      <<"e","x","c","i","t","e","d">>,
      <<"f","r","u","s","t","r","a","t","e","d">>,
      <<"a","m","a","z","i","n","g">>,
      <<"t","e","r","r","i","b","l","e">>,
      <<"a","w","e","s","o","m","e">>,
      <<"h","o","r","r","i","b","l","e">>,
      <<"b","e","a","u","t","i","f","u","l">>,
      <<"u","g","l","y">>,
      <<"p","e","r","f","e","c","t">>,
      <<"d","i","s","a","s","t","e","r">>,
      <<"n","i","g","h","t","m","a","r","e">>,
      <<"d","r","e","a","m">> }

conflict_words ==
    { <<"f","i","g","h","t">>,
      <<"a","r","g","u","e">>,
      <<"d","e","b","a","t","e">>,
      <<"v","e","r","s","u","s">>,
      <<"a","g","a","i","n","s","t">>,
      <<"b","a","t","t","l","e">>,
      <<"w","a","r">>,
      <<"c","o","n","f","l","i","c","t">>,
      <<"p","r","o","b","l","e","m">>,
      <<"i","s","s","u","e">>,
      <<"c","h","a","l","l","e","n","g","e">>,
      <<"s","t","r","u","g","g","l","e">>,
      <<"f","a","i","l","e","d">>,
      <<"m","i","s","t","a","k","e">>,
      <<"w","r","o","n","g">>,
      <<"d","i","s","a","s","t","e","r">>,
      <<"c","a","t","a","s","t","r","o","p","h","e">> }


(***************************************************************************)
(* Python float arithmetic.  A float is an IEEE-754 binary64 value; every  *)
(* value the detector computes is non-negative and is held exactly as the  *)
(* natural number  value * 2^ScaleBits,  written in base LimbBase, least   *)
(* significant limb first, without leading zero limbs (zero is <<>>).      *)
(* Each operation computes the exact result and rounds it to 53            *)
(* significant bits, ties to even, as the hardware does.                   *)
(***************************************************************************)
LimbBits == 12

LimbBase == 2^LimbBits

ScaleLimbs == 8

ScaleBits == LimbBits * ScaleLimbs

MantissaBits == 53

Zeros(k) == AsTuple([x \in 1..k |-> 0])

RECURSIVE BNorm(_)
BNorm(a) ==
    IF a # <<>> /\ a[Len(a)] = 0 THEN BNorm(SubSeq(a, 1, Len(a) - 1)) ELSE a

BHead(a) == IF a = <<>> THEN 0 ELSE Head(a)

BTail(a) == IF a = <<>> THEN <<>> ELSE Tail(a)

RECURSIVE BAddC(_, _, _)
BAddC(a, b, c) ==
    IF a = <<>> /\ b = <<>>
    THEN IF c = 0 THEN <<>> ELSE <<c>>
    ELSE LET x == BHead(a) + BHead(b) + c
         IN  <<x % LimbBase>> \o BAddC(BTail(a), BTail(b), x \div LimbBase)

BAdd(a, b) == BAddC(a, b, 0)

RECURSIVE BMulSmallC(_, _, _)
BMulSmallC(a, s, c) ==
    IF a = <<>>
    THEN IF c = 0 THEN <<>> ELSE <<c % LimbBase>> \o BMulSmallC(<<>>, s, c \div LimbBase)
    ELSE LET x == Head(a) * s + c
         IN  <<x % LimbBase>> \o BMulSmallC(Tail(a), s, x \div LimbBase)

BMulSmall(a, s) == BNorm(BMulSmallC(a, s, 0))

BShiftLimbs(a, k) == IF a = <<>> THEN <<>> ELSE Zeros(k) \o a

RECURSIVE BMul(_, _)
BMul(a, b) ==
    IF b = <<>> THEN <<>>
    ELSE BAdd(BMulSmall(a, Head(b)), BShiftLimbs(BMul(a, Tail(b)), 1))

\* quotient and remainder of a by a divisor 0 < d < LimbBase
RECURSIVE BDivRec(_, _)
BDivRec(a, d) ==
    IF a = <<>> THEN [q |-> <<>>, r |-> 0]
    ELSE LET hi  == BDivRec(Tail(a), d)
             cur == hi.r * LimbBase + Head(a)
         IN  [q |-> <<cur \div d>> \o hi.q, r |-> cur % d]

NormQuotient(x) == [q |-> BNorm(x.q), r |-> x.r]

BDivSmall(a, d) == NormQuotient(BDivRec(a, d))

RECURSIVE BLessFrom(_, _, _)
BLessFrom(a, b, k) ==
    IF k = 0 THEN FALSE
    ELSE IF a[k] # b[k] THEN a[k] < b[k]
    ELSE BLessFrom(a, b, k - 1)

BLess(a, b) ==
    IF Len(a) # Len(b) THEN Len(a) < Len(b) ELSE BLessFrom(a, b, Len(a))

BToInt(a) ==
    IF a = <<>> THEN 0
    ELSE IF Len(a) = 1 THEN a[1]
    ELSE a[1] + LimbBase * a[2]

LimbBitLen(x) == CHOOSE k \in 1..LimbBits : 2^(k - 1) <= x /\ x < 2^k

BitLen(a) ==
    IF a = <<>> THEN 0 ELSE LimbBits * (Len(a) - 1) + LimbBitLen(a[Len(a)])

\* floor(a / 2^e) together with whether any dropped bit was set
ShiftedOut(d, low) ==
    [q |-> d.q, sticky |-> d.r # 0 \/ \E x \in 1..Len(low) : low[x] # 0]

BShiftRight(a, e) ==
    LET k == e \div LimbBits
    IN  ShiftedOut(BDivSmall(SubSeq(a, k + 1, Len(a)), 2^(e % LimbBits)),
                   SubSeq(a, 1, IF k < Len(a) THEN k ELSE Len(a)))

BShiftLeft(a, e) == BShiftLimbs(BMulSmall(a, 2^(e % LimbBits)), e \div LimbBits)

\* half.q + half.r / 2 (+ a little if sticky) rounded to the nearest integer,
\* ties to even
RoundHalfEven(half, sticky) ==
    IF half.r = 1 /\ (sticky \/ BHead(half.q) % 2 = 1)
    THEN BAdd(half.q, <<1>>)
    ELSE half.q

RoundShifted(s) == RoundHalfEven(BDivSmall(s.q, 2), s.sticky)

\* a / 2^d rounded to the nearest integer, ties to even (d >= 1)
BShiftRightRound(a, d) == RoundShifted(BShiftRight(a, d - 1))

\* a, of bit length len, rounded to MantissaBits significant bits
RoundToBits(a, len) ==
    IF len <= MantissaBits THEN a
    ELSE BShiftLeft(BShiftRightRound(a, len - MantissaBits), len - MantissaBits)

\* a rounded to MantissaBits significant bits, ties to even
RoundToDouble(a) == RoundToBits(a, BitLen(a))

FZero == <<>>

\* float(x) for a small natural number x
FFromInt(x) == IF x = 0 THEN <<>> ELSE Zeros(ScaleLimbs) \o <<x>>

FAdd(x, y) == RoundToDouble(BAdd(x, y))

\* a value held at twice the scale, back at the scale
DropScale(a) == SubSeq(a, ScaleLimbs + 1, Len(a))

FMul(x, y) == DropScale(RoundToDouble(BMul(x, y)))

\* the true quotient a / b of two ints, 0 <= a, 0 < b < LimbBase; the lowest
\* bit of the long quotient records a non-zero remainder
StickyQuotient(d) ==
    IF d.r # 0 /\ BHead(d.q) % 2 = 0 THEN BAdd(d.q, <<1>>) ELSE d.q

FDivInt(a, b) == RoundToDouble(StickyQuotient(BDivSmall(FFromInt(a), b)))

\* a decimal literal num/den, e.g. 0.15 as FLit(15, 100)
FLit(num, den) == FDivInt(num, den)

FLess(x, y) == BLess(x, y)

\* a score left without its cap
FMinUncapped(x, y) == x

\* min(x, y) of Python: the first argument unless the second is smaller
FMin(x, y) == IF FLess(y, x) THEN y ELSE x

\* round(x, 3) in thousandths: the nearest multiple of 0.001, ties to even
Round3(x) == BToInt(BShiftRightRound(BMulSmall(x, 1000), ScaleBits))

(***************************************************************************)
(* ViralMomentDetector._calculate_segment_scores                           *)
(***************************************************************************)
FOne == FFromInt(1)

StripChars == {".", ",", "!", "?"}

Max(a, b) == IF a > b THEN a ELSE b

\* sum(1 for word in words if word.strip('.,!?').lower() in lexicon)
CountWords(words, lexicon) ==
    Cardinality({k \in 1..Len(words) : Lower(Strip(words[k], StripChars)) \in lexicon})

\* count / max(word_count, 1) * 3
WordRatio3(count, word_count) ==
    FMul(FDivInt(count, Max(word_count, 1)), FFromInt(3))

\* hook_score after  hook_score += 0.4  has run for each of the hits phrases
RECURSIVE HookSum(_)
HookSum(hits) ==
    IF hits = 0 THEN FZero ELSE FAdd(HookSum(hits - 1), FLit(4, 10))

\* the early return with one entry that is not zero
ZeroScoresButCaps ==
    [energy_score |-> FZero, hook_score |-> FZero, emotion_score |-> FZero,
     question_score |-> FZero, conflict_score |-> FZero, caps_score |-> FOne,
     punctuation_score |-> FZero]

\* the dict returned when word_count == 0
ZeroScores ==
    [energy_score |-> FZero, hook_score |-> FZero, emotion_score |-> FZero,
     question_score |-> FZero, conflict_score |-> FZero, caps_score |-> FZero,
     punctuation_score |-> FZero]

calculate_segment_scores(text, all_segments, current_index) ==
    LET words == Split(text)
        word_count == Len(words)
        energy_count == CountWords(words, energy_words)
        hook_hits == Cardinality({phrase \in hook_phrases : Contains(Lower(text), phrase)})
        emotion_count == CountWords(words, emotion_words)
        question_count == CountWords(words, question_words)
        has_question_mark == Contains(text, <<"?">>)
        conflict_count == CountWords(words, conflict_words)
        original_text == all_segments[current_index].text
        caps_count == Cardinality({k \in 1..Len(original_text) : IsUpper(original_text[k])})
        caps_ratio == FDivInt(caps_count, Max(Len(original_text), 1))
        exclamation_count == CountChar(text, "!")
    IN  IF word_count = 0 THEN ZeroScores
        ELSE [energy_score |-> FMin(WordRatio3(energy_count, word_count), FOne),
              hook_score |-> FMin(HookSum(hook_hits), FOne),
              emotion_score |-> FMin(WordRatio3(emotion_count, word_count), FOne),
              question_score |->
                  FMin(FAdd(WordRatio3(question_count, word_count),
                            IF has_question_mark THEN FLit(4, 10) ELSE FZero), FOne),
              conflict_score |-> FMin(WordRatio3(conflict_count, word_count), FOne),
              caps_score |-> FMin(FMul(caps_ratio, FFromInt(5)), FOne),
              punctuation_score |->
                  FMin(FMul(FFromInt(exclamation_count), FLit(3, 10)), FOne)]

(***************************************************************************)
(* analyze_transcript: the weighted combination and its threshold.         *)
(***************************************************************************)
WeightedScore(scores) ==
    FAdd(FAdd(FAdd(FAdd(FAdd(FAdd(
        FMul(scores.energy_score, FLit(25, 100)),
        FMul(scores.hook_score, FLit(25, 100))),
        FMul(scores.emotion_score, FLit(15, 100))),
        FMul(scores.question_score, FLit(15, 100))),
        FMul(scores.conflict_score, FLit(10, 100))),
        FMul(scores.caps_score, FLit(5, 100))),
        FMul(scores.punctuation_score, FLit(5, 100)))

ViralThreshold == FLit(15, 100)

\* _generate_reasons: the tags of a candidate, as a bag (the order of the
\* list is not kept; a count above 1 is a duplicate entry).  The pictograph
\* that starts each tag in the source is left out.
ReasonTag(score, num, den, tag) ==
    IF FLess(FLit(num, den), score) THEN SetToBag({tag}) ELSE EmptyBag

\* return reasons, without the fallback
ReasonsAsCollected(reasons) == reasons

\* return reasons if reasons else ["High engagement potential"]
ReasonsOrFallback(reasons) ==
    IF reasons # EmptyBag THEN reasons
    ELSE SetToBag({"High engagement potential"})

generate_reasons(scores) ==
    ReasonsOrFallback(
        ReasonTag(scores.energy_score, 5, 10, "High-energy language")
        (+) ReasonTag(scores.hook_score, 3, 10, "Attention-grabbing hook")
        (+) ReasonTag(scores.emotion_score, 5, 10, "Strong emotional content")
        (+) ReasonTag(scores.question_score, 5, 10, "Creates curiosity")
        (+) ReasonTag(scores.conflict_score, 5, 10, "Drama/conflict")
        (+) ReasonTag(scores.caps_score, 3, 10, "Emphasis/excitement")
        (+) ReasonTag(scores.punctuation_score, 3, 10, "Exclamation/intensity"))

\* the dict appended to moments for a segment that passes the threshold;
\* viral_score is round(viral_score, 3) in thousandths
CandidateMoment(segment, analysis) ==
    [start_time  |-> segment.start,
     end_time    |-> segment.start + segment.duration,
     text        |-> segment.text,
     viral_score |-> analysis.rounded,
     scores      |-> analysis.scores,
     reasons     |-> analysis.reasons]

\* moments.sort(key=lambda x: x['viral_score'], reverse=True): the stable
\* descending order, as the sequence of positions of the unsorted list
RECURSIVE InsertDesc(_, _, _)
InsertDesc(perm, idx, ms) ==
    IF perm = <<>> THEN <<idx>>
    ELSE IF ms[Head(perm)].viral_score < ms[idx].viral_score
         THEN <<idx>> \o perm
         ELSE <<Head(perm)>> \o InsertDesc(Tail(perm), idx, ms)

RECURSIVE SortPermUpTo(_, _)
SortPermUpTo(ms, k) ==
    IF k = 0 THEN <<>> ELSE InsertDesc(SortPermUpTo(ms, k - 1), k, ms)

\* a faulty variant of SortPerm: reverse=True forgotten (ascending order)
SortPermAscending(ms) ==
    AsTuple([k \in 1..Len(ms) |->
        SortPermUpTo(ms, Len(ms))[Len(ms) + 1 - k]])

SortPerm(ms) == SortPermUpTo(ms, Len(ms))

Permuted(seq, perm) == AsTuple([k \in 1..Len(perm) |-> seq[perm[k]]])

(***************************************************************************)
(* _merge_nearby_moments                                                   *)
(***************************************************************************)
gap_threshold == 10

\* if next_moment['start_time'] - current['end_time'] <= gap_threshold
WithinGap(cur, next_moment) ==
    next_moment.start_time - cur.end_time <= gap_threshold

\* a faulty variant of Extend: set() forgotten, so shared tags repeat
ExtendKeepDuplicates(cur, next_moment) ==
    [cur EXCEPT
        !.end_time = next_moment.end_time,
        !.text = cur.text \o <<" ">> \o next_moment.text,
        !.viral_score = Max(cur.viral_score, next_moment.viral_score),
        !.reasons = cur.reasons (+) next_moment.reasons]

\* the body of the if branch: current extended by next_moment
Extend(cur, next_moment) ==
    [cur EXCEPT
        !.end_time = next_moment.end_time,
        !.text = cur.text \o <<" ">> \o next_moment.text,
        !.viral_score = Max(cur.viral_score, next_moment.viral_score),
        !.reasons = SetToBag(BagToSet(cur.reasons (+) next_moment.reasons))]

(***************************************************************************)
(* get_top_moments                                                         *)
(***************************************************************************)
Duration(moment) == moment.end_time - moment.start_time

Eligible(moment, min_d, max_d) ==
    min_d <= Duration(moment) /\ Duration(moment) <= max_d

\* a faulty variant of SetDuration: a duration already present is kept
SetDurationIfAbsent(moment) == moment @@ ("duration" :> Duration(moment))

\* moment['duration'] = duration
SetDuration(moment) == ("duration" :> Duration(moment)) @@ moment

\* the list filtered built by the loop
RECURSIVE Filtered(_, _, _)
Filtered(ms, min_d, max_d) ==
    IF ms = <<>> THEN <<>>
    ELSE IF Eligible(Head(ms), min_d, max_d)
         THEN <<SetDuration(Head(ms))>> \o Filtered(Tail(ms), min_d, max_d)
         ELSE Filtered(Tail(ms), min_d, max_d)

\* the caller's list after the loop: the dicts in it are the ones the loop
\* wrote the duration into
AfterFilter(ms, min_d, max_d) ==
    AsTuple([k \in 1..Len(ms) |->
        IF Eligible(ms[k], min_d, max_d) THEN SetDuration(ms[k]) ELSE ms[k]])

\* a faulty variant of Slice: one element too many
SliceOneMore(seq, count) ==
    SubSeq(seq, 1, IF count + 1 < Len(seq) THEN count + 1 ELSE Len(seq))

\* seq[:count]
Slice(seq, count) ==
    IF count >= 0
    THEN SubSeq(seq, 1, IF count < Len(seq) THEN count ELSE Len(seq))
    ELSE SubSeq(seq, 1, Len(seq) + count)

get_top_moments(ms, count, min_d, max_d) == Slice(Filtered(ms, min_d, max_d), count)

(***************************************************************************)
(* Inputs of the model: segment texts, start times and durations.          *)
(***************************************************************************)
\* 'love'
TextLove == <<"l","o","v","e">>

\* 'STOP'
TextStop == <<"S","T","O","P">>

\* 'wait stop'
TextWaitStop == <<"w","a","i","t"," ","s","t","o","p">>

\* 'WOW!'
TextWow == <<"W","O","W","!">>

\* 'ok'
TextOk == <<"o","k">>

\* 'WAR A b c d e!!!!'
TextWar ==
    <<"W","A","R"," ","A"," ","b"," ","c"," ","d"," ","e","!",
       "!","!","!">>

\* 'wow love a b c d'
TextFallback == <<"w","o","w"," ","l","o","v","e"," ","a"," ","b"," ","c"," ","d">>

\* 'Stop stop'
TextStopStop == <<"S","t","o","p"," ","s","t","o","p">>

\* 'WHAT WHAT AMAZING DISASTER DISASTER DISASTER wait stop truth!!!!?'
TextAllOnes ==
    <<"W","H","A","T"," ","W","H","A","T"," ","A","M","A","Z",
       "I","N","G"," ","D","I","S","A","S","T","E","R"," ","D",
       "I","S","A","S","T","E","R"," ","D","I","S","A","S","T",
       "E","R"," ","w","a","i","t"," ","s","t","o","p"," ","t",
       "r","u","t","h","!","!","!","!","?">>

\* texts of the segments of multi-segment transcripts
MainTexts == {TextLove, TextStop, TextWaitStop, TextWow}

\* further texts, each analysed as a one-segment transcript
EdgeTexts == {<<>>, <<" ">>, TextOk, TextWar, TextAllOnes, TextFallback, TextStopStop}

StartTimes == {0, 15, 16, 31}

Durations == {2, 5}

RECURSIVE SortedSeq(_)
SortedSeq(S) ==
    IF S = {} THEN <<>>
    ELSE LET lo == CHOOSE x \in S : \A y \in S : x <= y
         IN  <<lo>> \o SortedSeq(S \ {lo})

\* transcripts in chronological order, as the captioning service sends them
ChronologicalTranscripts ==
    UNION { { AsTuple([k \in 1..Cardinality(S) |->
                  [text |-> tx[k], start |-> SortedSeq(S)[k], duration |-> du[k]]]) :
              tx \in [1..Cardinality(S) -> MainTexts],
              du \in [1..Cardinality(S) -> Durations] } :
            S \in {T \in SUBSET StartTimes : Cardinality(T) <= MaxSegs} }

Texts == MainTexts \cup EdgeTexts

\* What the body of the scoring loop computes for a segment.  It reads the
\* segment's own text only, so it is tabulated once per text.
Analysis(scores, viral_score) ==
    [scores      |-> scores,
     viral_score |-> viral_score,
     keep        |-> FLess(ViralThreshold, viral_score),
     rounded     |-> Round3(viral_score),
     reasons     |-> generate_reasons(scores)]

AnalyzeScores(scores) == Analysis(scores, WeightedScore(scores))

AnalyzeText(t) ==
    AnalyzeScores(calculate_segment_scores(Lower(t), <<[text |-> t]>>, 1))

RECURSIVE TabulateAnalysis(_)
TabulateAnalysis(S) ==
    IF S = {} THEN <<>>
    ELSE LET t == CHOOSE x \in S : TRUE
         IN  (t :> AnalyzeText(t)) @@ TabulateAnalysis(S \ {t})

SegmentAnalysis == TabulateAnalysis(Texts)

EdgeTranscripts ==
    { <<[text |-> t, start |-> 0, duration |-> 5]>> : t \in EdgeTexts }

\* Values a caller can hand over that are not lists of segment dicts.  A value
\* is <<kind, data>>: None, a str (data holds its characters: iterating a str
\* yields one-character strs), or a list with a segment that is not a dict or
\* whose 'text' is None (such a segment has no text field here).
NotADict == [not_a_dict |-> TRUE]

TextIsNone == [start |-> 0, duration |-> 5]

WellFormed == [text |-> TextWow, start |-> 0, duration |-> 5]

OtherTranscripts ==
    { <<"none", <<>>>>,
      <<"str", <<>>>>,
      <<"str", TextOk>>,
      <<"list", <<>>>>,
      <<"list", <<NotADict>>>>,
      <<"list", <<WellFormed, NotADict>>>>,
      <<"list", <<TextIsNone>>>>,
      <<"list", <<WellFormed, TextIsNone>>>> }

\* the scores before any segment was scored
NoScores == [none |-> TRUE]

\* a test that lets every value but [] through
NotEmptyList(kind, data) == kind # "list" \/ data # <<>>

\* bool(transcript_data): None, '' and [] are false
Truthy(kind, data) == kind # "none" /\ data # <<>>

\* segment.get('text', '').lower() raises AttributeError when segment has no
\* get (a str, or any element that is not a dict) and when the text is None
GetTextRaises(kind, segment) ==
    \/ kind = "str"
    \/ "not_a_dict" \in DOMAIN segment
    \/ "text" \notin DOMAIN segment

(***************************************************************************)
(* State.                                                                  *)
(***************************************************************************)
VARIABLES
    pc,               \* where the caller is: "idle", inside analyze_transcript
                      \* ("score", "sort", "merge_entry", "merge_loop"),
                      \* "analyzed" (it returned), "raised" (an exception left
                      \* it), "top" (get_top_moments returned), "not_called"
    transcript_kind,  \* "list", "str" or "none": the type of the argument
    transcript_data,  \* the argument of analyze_transcript
    segment_scores,   \* the dict scores of the iteration that ran last
    i,                \* index of the segment the scoring loop is at
    moments,          \* the list moments of analyze_transcript, then of its caller
    origin,           \* history: for each entry of moments, the indices of the
                      \* segments it was built from
    merged,           \* the list merged of _merge_nearby_moments
    merged_origin,    \* history: origin of each entry of merged
    current,          \* the dict current of _merge_nearby_moments
    current_origin,   \* history: origin of current
    j,                \* index in moments of next_moment
    n,                \* arguments of get_top_moments
    min_duration,
    max_duration,
    top_moments,      \* the list get_top_moments returned
    audio_pc,         \* where detect_energy_peaks is: "idle", "scan", "run",
                      \* "returned", "not_called"
    audio_fault,      \* the step of detect_energy_peaks that raises, or "none"
    rms,              \* librosa.feature.rms(y=y)[0] in eighths, <<>> for len(y) = 0
    threshold,        \* arguments of detect_energy_peaks
    peak_min_duration,
    rms_normalized,
    frame,            \* the index i of the frame scan, counted from 0
    start_frame,
    peaks,            \* the list peaks, and what detect_energy_peaks returned
    runs,             \* history: <<start_frame, end_frame>> of every closed run
    app_pc,           \* where a request of the page is, "direct" outside a request
    audio_result,     \* what download_audio_temp returned
    seconds,          \* the argument of format_timestamp
    stamp,            \* which format_timestamp was called and how it ended
    report            \* which generate_report was called and what it returned

audioVars == <<audio_pc, audio_fault, rms, threshold, peak_min_duration,
               rms_normalized, frame, start_frame, peaks, runs>>

appVars == <<app_pc, audio_result>>

showVars == <<seconds, stamp, report>>

vars == <<pc, transcript_kind, transcript_data, segment_scores, i, moments,
          origin, merged, merged_origin, current, current_origin, j, n,
          min_duration, max_duration, top_moments, audioVars, appVars, showVars>>

NoMoment == [none |-> TRUE]

mergeVars == <<merged, merged_origin, current, current_origin, j>>

topVars == <<n, min_duration, max_duration, top_moments>>

\* no call of detect_energy_peaks
NoAudio ==
    /\ audio_pc = "not_called"
    /\ audio_fault = "none"
    /\ rms = <<>>
    /\ threshold = FZero
    /\ peak_min_duration = FZero
    /\ rms_normalized = <<>>
    /\ frame = 0
    /\ start_frame = 0
    /\ peaks = <<>>
    /\ runs = <<>>

\* no request of the page: the detector is called directly
NoApp ==
    /\ app_pc = "direct"
    /\ audio_result = FALSE

NoSeconds == [type |-> "unset"]

NoStamp == [by |-> "nobody"]

NoReport == [by |-> "nobody"]

\* no call of format_timestamp or generate_report
NoShow ==
    /\ seconds = NoSeconds
    /\ stamp = NoStamp
    /\ report = NoReport

Init ==
    /\ pc = "idle"
    /\ \/ /\ transcript_kind = "list"
          /\ transcript_data \in ChronologicalTranscripts \cup EdgeTranscripts
       \/ \E value \in OtherTranscripts :
              /\ transcript_kind = value[1]
              /\ transcript_data = value[2]
    /\ segment_scores = NoScores
    /\ i = 0
    /\ moments = <<>>
    /\ origin = <<>>
    /\ merged = <<>>
    /\ merged_origin = <<>>
    /\ current = NoMoment
    /\ current_origin = {}
    /\ j = 0
    /\ n = 5
    /\ min_duration = 10
    /\ max_duration = 60
    /\ top_moments = <<>>
    /\ NoAudio
    /\ NoApp
    /\ NoShow

(***************************************************************************)
(* analyze_transcript                                                      *)
(***************************************************************************)
\* if not transcript_data: return []  /  moments = []
\* (enumerate(None) would raise TypeError)
EnterAnalyze ==
    /\ pc = "idle"
    /\ pc' = IF ~Truthy(transcript_kind, transcript_data) THEN "analyzed"
             ELSE IF transcript_kind = "none" THEN "raised"
             ELSE "score"
    /\ i' = 1
    /\ moments' = <<>>
    /\ origin' = <<>>
    /\ UNCHANGED <<transcript_kind, transcript_data, segment_scores, mergeVars,
                   topVars, audioVars, appVars, showVars>>

\* one iteration of  for i, segment in enumerate(transcript_data)
ScoreStep(segment, analysis) ==
    /\ IF analysis.keep
       THEN /\ moments' = Append(moments, CandidateMoment(segment, analysis))
            /\ origin' = Append(origin, {i})
       ELSE UNCHANGED <<moments, origin>>
    /\ segment_scores' = analysis.scores
    /\ i' = i + 1
    /\ UNCHANGED <<pc, transcript_kind, transcript_data, mergeVars, topVars,
                   audioVars, appVars, showVars>>

\* the iteration ends in AttributeError, which nothing in analyze_transcript
\* catches
ScoreRaises ==
    /\ pc' = "raised"
    /\ UNCHANGED <<transcript_kind, transcript_data, segment_scores, i, moments,
                   origin, mergeVars, topVars, audioVars, appVars, showVars>>

ScoreSegment ==
    /\ pc = "score"
    /\ i <= Len(transcript_data)
    /\ IF GetTextRaises(transcript_kind, transcript_data[i])
       THEN ScoreRaises
       ELSE ScoreStep(transcript_data[i],
                      SegmentAnalysis[transcript_data[i].text])

\* moments.sort(key=lambda x: x['viral_score'], reverse=True)
SortMoments ==
    /\ pc = "score"
    /\ i > Len(transcript_data)
    /\ moments' = Permuted(moments, SortPerm(moments))
    /\ origin' = Permuted(origin, SortPerm(moments))
    /\ pc' = "merge_entry"
    /\ UNCHANGED <<transcript_kind, transcript_data, segment_scores, i, mergeVars,
                   topVars, audioVars, appVars, showVars>>

\* _merge_nearby_moments up to the loop: the early return, or
\* merged = [] and current = moments[0].copy()
MergeStart ==
    /\ pc = "merge_entry"
    /\ IF Len(moments) <= 1
       THEN /\ pc' = "analyzed"
            /\ UNCHANGED mergeVars
       ELSE /\ pc' = "merge_loop"
            /\ merged' = <<>>
            /\ merged_origin' = <<>>
            /\ current' = moments[1]
            /\ current_origin' = origin[1]
            /\ j' = 2
    /\ UNCHANGED <<transcript_kind, transcript_data, segment_scores, i, moments,
                   origin, topVars, audioVars, appVars, showVars>>

\* one iteration of  for next_moment in moments[1:]
MergeNext ==
    /\ pc = "merge_loop"
    /\ j <= Len(moments)
    /\ LET next_moment == moments[j]
       IN  IF WithinGap(current, next_moment)
           THEN /\ current' = Extend(current, next_moment)
                /\ current_origin' = current_origin \cup origin[j]
                /\ UNCHANGED <<merged, merged_origin>>
           ELSE /\ merged' = Append(merged, current)
                /\ merged_origin' = Append(merged_origin, current_origin)
                /\ current' = next_moment
                /\ current_origin' = origin[j]
    /\ j' = j + 1
    /\ UNCHANGED <<pc, transcript_kind, transcript_data, segment_scores, i,
                   moments, origin, topVars, audioVars, appVars, showVars>>

\* merged.append(current); return merged; analyze_transcript returns it
MergeFinish ==
    /\ pc = "merge_loop"
    /\ j > Len(moments)
    /\ merged' = Append(merged, current)
    /\ merged_origin' = Append(merged_origin, current_origin)
    /\ moments' = merged'
    /\ origin' = merged_origin'
    /\ pc' = "analyzed"
    /\ UNCHANGED <<transcript_kind, transcript_data, segment_scores, i, current,
                   current_origin, j, topVars, audioVars, appVars, showVars>>

(***************************************************************************)
(* get_top_moments, called on the list of moments the caller holds         *)
(***************************************************************************)
GetTopMoments ==
    /\ pc = "analyzed"
    /\ top_moments' = get_top_moments(moments, n, min_duration, max_duration)
    /\ moments' = AfterFilter(moments, min_duration, max_duration)
    /\ pc' = "top"
    /\ UNCHANGED <<transcript_kind, transcript_data, segment_scores, i, origin,
                   mergeVars, n, min_duration, max_duration, audioVars, appVars, showVars>>

\* The caller calls analyze_transcript and then get_top_moments on its result.
\* The steps of a call follow each other as pc says: in every state at most
\* one of them is enabled, so none can be left out or taken twice.
Next ==
    \/ EnterAnalyze
    \/ ScoreSegment
    \/ SortMoments
    \/ MergeStart
    \/ MergeNext
    \/ MergeFinish
    \/ GetTopMoments

Spec == Init /\ [][Next]_vars

(***************************************************************************)
(* get_top_moments on its own: the argument is any list of moment dicts,   *)
(* in any order, and any n, min_duration and max_duration.                 *)
(***************************************************************************)
MaxTopLen == 3

MaxN == 3

\* a moment dict as analyze_transcript builds it
MomentOf(text, start, duration) ==
    CandidateMoment([text |-> text, start |-> start, duration |-> duration],
                    SegmentAnalysis[text])

\* a moment that carries a duration written earlier which no longer is
\* end_time - start_time
StaleMoment == ("duration" :> 5) @@ MomentOf(TextWow, 30, 30)

\* durations 10, 60, 9, 61 and 30; scores 0.15, 0.2, 0.315, 0.315, 0.315
MomentMenu ==
    { MomentOf(TextStop, 0, 10),
      MomentOf(TextWaitStop, 20, 60),
      MomentOf(TextWow, 5, 9),
      MomentOf(TextWow, 100, 61),
      StaleMoment }

TopInputs ==
    UNION { { AsTuple(f) : f \in [1..len -> MomentMenu] } : len \in 0..MaxTopLen }

\* <<min_duration, max_duration>>; the first is the default
DurationRanges == { <<10, 60>>, <<0, 9>>, <<30, 30>> }

InitTop ==
    /\ pc = "analyzed"
    /\ transcript_kind = "list"
    /\ transcript_data = <<>>
    /\ segment_scores = NoScores
    /\ i = 0
    /\ moments \in TopInputs
    /\ origin = <<>>
    /\ merged = <<>>
    /\ merged_origin = <<>>
    /\ current = NoMoment
    /\ current_origin = {}
    /\ j = 0
    /\ n \in -1..MaxN
    /\ \E range \in DurationRanges :
           /\ min_duration = range[1]
           /\ max_duration = range[2]
    /\ top_moments = <<>>
    /\ NoAudio
    /\ NoApp
    /\ NoShow

NextTop == GetTopMoments

SpecTop == InitTop /\ [][NextTop]_vars

(***************************************************************************)
(* The audio path: detect_energy_peaks of audio_energy_detector.py.  The   *)
(* input is the RMS envelope librosa.feature.rms returns for the decoded   *)
(* waveform, one value per frame, in eighths; it is empty exactly for a    *)
(* waveform of zero samples.  The envelope and what is derived from it are *)
(* float32 values, times are float64 values.                               *)
(***************************************************************************)
MaxFrames == 4

hop_length == 512

sr == 22050

\* significant bits of a float32
SingleBits == 24

RoundToSingleBits(a, len) ==
    IF len <= SingleBits THEN a
    ELSE BShiftLeft(BShiftRightRound(a, len - SingleBits), len - SingleBits)

\* a rounded to float32, ties to even
RoundToSingle(a) == RoundToSingleBits(a, BitLen(a))

\* a - b for a >= b
RECURSIVE BSubC(_, _, _)
BSubC(a, b, c) ==
    IF a = <<>> THEN <<>>
    ELSE LET x == Head(a) - BHead(b) - c
         IN  <<x % LimbBase>> \o
             BSubC(Tail(a), BTail(b), IF x < 0 THEN 1 ELSE 0)

\* x - y of two floats, x >= y
FSub(x, y) == RoundToDouble(BNorm(BSubC(x, y, 0)))

\* int(x): the integral part of a float below LimbBase^2
Trunc(x) == BToInt(BShiftRight(x, ScaleBits).q)

SeqMax(s) == CHOOSE x \in {s[k] : k \in 1..Len(s)} : \A k \in 1..Len(s) : s[k] <= x

SeqMin(s) == CHOOSE x \in {s[k] : k \in 1..Len(s)} : \A k \in 1..Len(s) : x <= s[k]

\* x / hi: normalization by the maximum only
NormalizeByMax(x, lo, hi) ==
    IF hi = 0 THEN FZero
    ELSE RoundToSingle(StickyQuotient(BDivSmall(FFromInt(x), hi)))

\* (x - lo) / (hi - lo + 1e-10) in float32.  The sum hi - lo + 1e-10 rounds
\* to hi - lo when that is an eighth or more, and to 1e-10 when it is 0; the
\* quotient of 0 by 1e-10 is 0.
NormalizeValue(x, lo, hi) ==
    IF hi = lo THEN FZero
    ELSE RoundToSingle(StickyQuotient(BDivSmall(FFromInt(x - lo), hi - lo)))

\* (rms - np.min(rms)) / (np.max(rms) - np.min(rms) + 1e-10)
Normalize(envelope) ==
    AsTuple([k \in 1..Len(envelope) |->
                NormalizeValue(envelope[k], SeqMin(envelope), SeqMax(envelope))])

\* the time of the even frame at or below x
FramesToTimeOfPairs(x) ==
    RoundToDouble(StickyQuotient(
        BDivSmall(BMulSmall(FFromInt(2 * (x \div 2)), hop_length), sr)))

\* the frame length taken for the hop
FramesToTimeByLength(x) ==
    RoundToDouble(StickyQuotient(BDivSmall(BMulSmall(FFromInt(x), 4 * hop_length), sr)))

\* librosa.frames_to_time(x, sr=sr, hop_length=hop_length): x * hop_length / sr
frames_to_time(x) ==
    RoundToDouble(StickyQuotient(BDivSmall(BMulSmall(FFromInt(x), hop_length), sr)))

\* the sum of values[lo..hi]: each of the values S times the number of frames
\* that have it
RECURSIVE SumByValue(_, _, _, _)
SumByValue(S, values, lo, hi) ==
    IF S = {} THEN FZero
    ELSE LET v == CHOOSE x \in S : TRUE
         IN  BAdd(BMulSmall(v, Cardinality({k \in lo..hi : values[k] = v})),
                  SumByValue(S \ {v}, values, lo, hi))

\* np.add.reduce over the float32 slice values[lo..hi].  NumPy adds pairwise and
\* rounds after each addition; every partial sum of an envelope of this model
\* is a float32 (a multiple of 1/8 below 2^21), so no addition rounds and
\* the order does not matter.
SumFrames(values, lo, hi) ==
    RoundToSingle(SumByValue({values[k] : k \in lo..hi}, values, lo, hi))

\* np.mean of a float32 slice of count values: the float32 sum / count
MeanOf(total, count) == RoundToSingle(StickyQuotient(BDivSmall(total, count)))

\* int(np.mean(...) * 100).  The product of the float32 mean and the int 100
\* is a float32 under NumPy 2 and a float64 under NumPy 1 (which holds it
\* exactly); the requirements pin neither, so both values are possible.
EnergyScores(mean) ==
    { Trunc(RoundToSingle(BMulSmall(mean, 100))), Trunc(BMulSmall(mean, 100)) }

\* the dict appended to peaks for the run of frames from..(to - 1)
PeakOf(start_time, end_time, energy_score) ==
    [start_time   |-> start_time,
     end_time     |-> end_time,
     duration     |-> FSub(end_time, start_time),
     energy_score |-> energy_score,
     reason       |-> "High audio energy detected"]

\* peaks.sort(key=lambda x: x['energy_score'], reverse=True): stable
RECURSIVE InsertByEnergy(_, _)
InsertByEnergy(sorted, peak) ==
    IF sorted = <<>> THEN <<peak>>
    ELSE IF Head(sorted).energy_score < peak.energy_score
         THEN <<peak>> \o sorted
         ELSE <<Head(sorted)>> \o InsertByEnergy(Tail(sorted), peak)

\* the list is left in the order of discovery
PeaksAsFound(ps) == ps

RECURSIVE SortByEnergy(_)
SortByEnergy(ps) ==
    IF ps = <<>> THEN <<>>
    ELSE CHOOSE result \in { InsertByEnergy(sorted, ps[Len(ps)]) :
                                 sorted \in {SortByEnergy(SubSeq(ps, 1, Len(ps) - 1))} } :
             TRUE

\* s[:k]
FirstOf(s, k) == SubSeq(s, 1, IF Len(s) < k THEN Len(s) ELSE k)

\* every run is kept
AnyDuration(duration, minimum) == TRUE

\* if duration >= min_duration
LongEnough(duration, minimum) == ~FLess(duration, minimum)

\* the handler returns the partial list
ExceptResultPartial(partial) == partial

\* except Exception: return []
ExceptResult(partial) == <<>>

\* rms values of the short envelopes: silent, middle, loud
Levels == {0, 5, 8}

\* every envelope of up to MaxFrames frames
ShortEnvelopes ==
    UNION { { AsTuple(f) : f \in [1..len -> Levels] } : len \in 0..MaxFrames }

\* defaults of detect_energy_peaks: threshold=0.7, min_duration=3
DefaultThreshold == FLit(7, 10)

DefaultMinDuration == FFromInt(3)

\* 0.78125 * 0.8 is 0.625, the middle level over the loud one
Thresholds == {DefaultThreshold, FLit(5, 10), FLit(25, 32)}

\* 0.05 s lies between two frames (0.046 s) and three (0.070 s)
MinDurations == {DefaultMinDuration, FZero, FLit(5, 100)}

\* the fewest frames that last the given number of seconds
FramesFor(length) == (length * sr + hop_length - 1) \div hop_length

Repeat(x, count) == AsTuple([k \in 1..count |-> x])

\* envelopes with runs about 3 and 10 seconds long: a 10-second burst at the
\* start, in the middle (after quiet that is not silent) and at the end of the
\* recording, and a run one frame short of 3 seconds followed by one of 3
LongEnvelopes ==
    { Repeat(8, FramesFor(10)) \o <<0, 0>>,
      <<4, 4>> \o Repeat(8, FramesFor(10)) \o <<0, 0>>,
      <<0, 0>> \o Repeat(8, FramesFor(10)),
      Repeat(8, FramesFor(3) - 1) \o <<0>> \o Repeat(8, FramesFor(3)) \o <<0>> }

\* three runs, each closed by a silent frame: the middle level alone, the loud
\* one alone, and the middle level three times followed by the loud one
Comb == <<5, 0, 8, 0, 5, 5, 5, 8, 0>>

\* twelve runs of one or four frames, more than the ten that are returned
CombEnvelopes == { Comb \o Comb \o Comb \o Comb }

\* the step of detect_energy_peaks that raises: none, librosa.load,
\* librosa.feature.rms, or a step of closing a run (any of the runs)
Faults == {"none", "load", "rms", "close"}

\* no call of analyze_transcript or get_top_moments
NoLinguistic ==
    /\ pc = "not_called"
    /\ transcript_kind = "unset"
    /\ transcript_data = <<>>
    /\ segment_scores = NoScores
    /\ i = 0
    /\ moments = <<>>
    /\ origin = <<>>
    /\ merged = <<>>
    /\ merged_origin = <<>>
    /\ current = NoMoment
    /\ current_origin = {}
    /\ j = 0
    /\ n = 5
    /\ min_duration = 10
    /\ max_duration = 60
    /\ top_moments = <<>>

lingVars == <<pc, transcript_kind, transcript_data, segment_scores, i, moments,
              origin, mergeVars, topVars>>

\* the recording and the arguments: any short envelope with any threshold and
\* min_duration, a long one with the defaults, a comb with threshold 0.5 and
\* every run kept
AudioInputs ==
    /\ audio_fault \in Faults
    /\ \/ /\ rms \in ShortEnvelopes
          /\ threshold \in Thresholds
          /\ peak_min_duration \in MinDurations
       \/ /\ rms \in LongEnvelopes
          /\ threshold = DefaultThreshold
          /\ peak_min_duration = DefaultMinDuration
       \/ /\ rms \in CombEnvelopes
          /\ threshold = FLit(5, 10)
          /\ peak_min_duration = FZero
    /\ rms_normalized = <<>>
    /\ frame = 0
    /\ start_frame = 0
    /\ peaks = <<>>
    /\ runs = <<>>

InitAudio ==
    /\ NoLinguistic
    /\ NoApp
    /\ NoShow
    /\ audio_pc = "idle"
    /\ AudioInputs

\* the point the call has reached and the two indices of its loops; each
\* step below is written in two parts, where the call goes and what it computes
loopVars == <<audio_pc, frame, start_frame>>

\* the except branch: print the error, return []
Caught ==
    /\ peaks' = ExceptResult(peaks)
    /\ UNCHANGED <<rms_normalized, runs>>

\* lines 35-43, the path taken: a failing load or envelope enters the handler,
\* an empty recording returns at once, otherwise the scan starts with i = 0
LoadPath ==
    /\ audio_pc = "idle"
    /\ IF audio_fault = "load" THEN audio_pc' = "caught" /\ UNCHANGED frame
       ELSE IF rms = <<>> THEN audio_pc' = "returned" /\ UNCHANGED frame
       ELSE IF audio_fault = "rms" THEN audio_pc' = "caught" /\ UNCHANGED frame
       ELSE audio_pc' = "scan" /\ frame' = 0
    /\ UNCHANGED start_frame

\* lines 35-43: load, the empty check, the envelope and its normalization
LoadAudio ==
    /\ LoadPath
    /\ IF audio_pc' = "caught" THEN Caught
       ELSE /\ peaks' = <<>>
            /\ rms_normalized' = IF audio_pc' = "scan" THEN Normalize(rms)
                                 ELSE rms_normalized
            /\ UNCHANGED runs
    /\ UNCHANGED <<audio_fault, rms, threshold, peak_min_duration, lingVars, appVars, showVars>>

\* the outer loop without the  i += 1  of line 62 at a frame that opens no run
ScanPathStays ==
    /\ audio_pc = "scan"
    /\ frame < Len(rms_normalized)
    /\ IF FLess(threshold, rms_normalized[frame + 1])
       THEN /\ start_frame' = frame
            /\ audio_pc' = "run"
            /\ UNCHANGED frame
       ELSE UNCHANGED <<frame, start_frame, audio_pc>>

\* one iteration of the outer loop at a frame that opens no run (lines 44, 45,
\* 62), or the start of a run (lines 44-46)
ScanPath ==
    /\ audio_pc = "scan"
    /\ frame < Len(rms_normalized)
    /\ IF FLess(threshold, rms_normalized[frame + 1])
       THEN /\ start_frame' = frame
            /\ audio_pc' = "run"
            /\ UNCHANGED frame
       ELSE /\ frame' = frame + 1
            /\ UNCHANGED <<start_frame, audio_pc>>

\* the outer loop computes nothing but its indices
ScanFrame ==
    /\ ScanPath
    /\ UNCHANGED <<audio_fault, rms, threshold, peak_min_duration, rms_normalized,
                   peaks, runs, lingVars, appVars, showVars>>

\* threshold * 0.8 for each threshold of the model, computed once
RECURSIVE TabulateBounds(_)
TabulateBounds(S) ==
    IF S = {} THEN <<>>
    ELSE LET t == CHOOSE x \in S : TRUE
         IN  (t :> FMul(t, FLit(8, 10))) @@ TabulateBounds(S \ {t})

HysteresisBound == TabulateBounds(Thresholds)

\* the run goes on only while the frame is above threshold itself
RunGoesOnAboveThreshold ==
    /\ frame < Len(rms_normalized)
    /\ FLess(threshold, rms_normalized[frame + 1])

\* the run goes on while the frame is above threshold * 0.8
RunGoesOn ==
    /\ frame < Len(rms_normalized)
    /\ FLess(HysteresisBound[threshold], rms_normalized[frame + 1])

\* one iteration of the inner loop (lines 47-48)
ExtendPath ==
    /\ audio_pc = "run"
    /\ RunGoesOn
    /\ frame' = frame + 1
    /\ UNCHANGED <<audio_pc, start_frame>>

ExtendRun ==
    /\ ExtendPath
    /\ UNCHANGED <<audio_fault, rms, threshold, peak_min_duration,
                   rms_normalized, peaks, runs, lingVars, appVars, showVars>>

\* lines 50-61 for the run start_frame..(frame - 1), with one of the values
\* the energy score can take
KeepIfLong(start_time, end_time, energy_score) ==
    IF LongEnough(FSub(end_time, start_time), peak_min_duration)
    THEN peaks' = Append(peaks, PeakOf(start_time, end_time, energy_score))
    ELSE UNCHANGED peaks

\* the inner loop ends (line 47); an exception while the run is closed enters
\* the handler, otherwise the scan goes on behind the frame that closed the
\* run (line 62)
ClosePath ==
    /\ audio_pc = "run"
    /\ ~RunGoesOn
    /\ \/ /\ audio_fault = "close"
          /\ audio_pc' = "caught"
          /\ UNCHANGED frame
       \/ /\ audio_pc' = "scan"
          /\ frame' = frame + 1
    /\ UNCHANGED start_frame

\* the run is closed and kept if it is long enough (lines 49-61)
CloseRun ==
    /\ ClosePath
    /\ IF audio_pc' = "caught" THEN Caught
       ELSE /\ \E start_time \in {frames_to_time(start_frame)},
                  end_time \in {frames_to_time(frame)},
                  total \in {SumFrames(rms_normalized, start_frame + 1, frame)} :
                  \E mean \in {MeanOf(total, frame - start_frame)} :
                      \E energy_score \in EnergyScores(mean) :
                          KeepIfLong(start_time, end_time, energy_score)
            /\ runs' = Append(runs, <<start_frame, frame>>)
            /\ UNCHANGED rms_normalized
    /\ UNCHANGED <<audio_fault, rms, threshold, peak_min_duration, lingVars, appVars, showVars>>

\* the outer loop ends (line 44) and the call returns (line 64)
FinishPath ==
    /\ audio_pc = "scan"
    /\ frame >= Len(rms_normalized)
    /\ audio_pc' = "returned"
    /\ UNCHANGED <<frame, start_frame>>

\* peaks.sort(...); return peaks[:10]  (lines 63-64)
FinishScan ==
    /\ FinishPath
    /\ peaks' = FirstOf(SortByEnergy(peaks), 10)
    /\ UNCHANGED <<audio_fault, rms, threshold, peak_min_duration, rms_normalized,
                   runs, lingVars, appVars, showVars>>

NextAudio ==
    \/ LoadAudio
    \/ ScanFrame
    \/ ExtendRun
    \/ CloseRun
    \/ FinishScan

SpecAudio == InitAudio /\ [][NextAudio]_vars

\* where the call goes in one step
NextPath ==
    \/ LoadPath
    \/ ScanPath
    \/ ExtendPath
    \/ ClosePath
    \/ FinishPath

\* the interpreter runs the call on: no step it can take is put off forever.
\* What a step computes is defined in every state, so a step can be taken
\* exactly where its path can
SpecAudioFair == InitAudio /\ [][NextAudio]_vars /\ WF_loopVars(NextPath)

\* detect_energy_peaks has ended, by return or through its handler
AudioEnded == audio_pc \in {"returned", "caught"}

(***************************************************************************)
(* One analysis request of the page "AI Viral Moments" of app.py.          *)
(***************************************************************************)
\* what get_video_transcript returns: None (no video id, no captions, any
\* exception) or the texts of the captions joined into one str
LookupOutcomes == { <<"none", <<>>>>, <<"str", <<>>>>, <<"str", TextOk>> }

InitApp ==
    /\ NoLinguistic
    /\ NoShow
    /\ app_pc = "start"
    /\ audio_result = FALSE
    /\ audio_pc = "not_called"
    /\ audio_fault \in Faults
    /\ rms \in ShortEnvelopes \cup LongEnvelopes
    /\ threshold = DefaultThreshold
    /\ peak_min_duration = DefaultMinDuration
    /\ rms_normalized = <<>>
    /\ frame = 0
    /\ start_frame = 0
    /\ peaks = <<>>
    /\ runs = <<>>

\* transcript = youtube_api.get_video_transcript(video_url)
LookupTranscript ==
    /\ app_pc = "start"
    /\ \E value \in LookupOutcomes :
           /\ transcript_kind' = value[1]
           /\ transcript_data' = value[2]
    /\ app_pc' = "looked_up"
    /\ UNCHANGED <<pc, segment_scores, i, moments, origin, mergeVars, topVars,
                   audioVars, audio_result, showVars>>

\* every transcript goes to the audio path
AudioPathAlways(kind, data) == "download"

\* if transcript: ... else: ...
ChosenPath(kind, data) == IF Truthy(kind, data) THEN "linguistic" ELSE "download"

ChoosePath ==
    /\ app_pc = "looked_up"
    /\ app_pc' = ChosenPath(transcript_kind, transcript_data)
    /\ pc' = IF app_pc' = "linguistic" THEN "idle" ELSE pc
    /\ UNCHANGED <<transcript_kind, transcript_data, segment_scores, i, moments,
                   origin, mergeVars, topVars, audioVars, audio_result, showVars>>

\* the exception of analyze_transcript ends the run of the page
PageFails ==
    /\ app_pc = "linguistic"
    /\ pc = "raised"
    /\ app_pc' = "failed"
    /\ UNCHANGED <<lingVars, audioVars, audio_result, showVars>>

\* audio_result = download_audio_temp(video_url); if audio_result['success']
DownloadAudio ==
    /\ app_pc = "download"
    /\ \E success \in BOOLEAN :
           /\ audio_result' = success
           /\ IF success
              THEN /\ audio_pc' = "idle"
                   /\ app_pc' = "audio"
                   /\ UNCHANGED top_moments
              ELSE /\ top_moments' = <<>>
                   /\ app_pc' = "done"
                   /\ UNCHANGED audio_pc
    /\ UNCHANGED <<pc, transcript_kind, transcript_data, segment_scores, i, moments,
                   origin, mergeVars, n, min_duration, max_duration, audio_fault,
                   rms, threshold, peak_min_duration, rms_normalized, frame,
                   start_frame, peaks, runs, showVars>>

\* top_moments = energy_moments[:5], or [] when there are none
UseEnergyMoments ==
    /\ app_pc = "audio"
    /\ AudioEnded
    /\ top_moments' = FirstOf(peaks, 5)
    /\ app_pc' = "done"
    /\ UNCHANGED <<pc, transcript_kind, transcript_data, segment_scores, i, moments,
                   origin, mergeVars, n, min_duration, max_duration, audioVars,
                   audio_result, showVars>>

\* The str that the lookup returns makes the first iteration of
\* analyze_transcript raise, so in a request the steps behind the scoring
\* loop (sort, merge, get_top_moments) are never reached.
NextApp ==
    \/ LookupTranscript
    \/ ChoosePath
    \/ EnterAnalyze
    \/ ScoreSegment
    \/ PageFails
    \/ DownloadAudio
    \/ LoadAudio
    \/ ScanFrame
    \/ ExtendRun
    \/ CloseRun
    \/ FinishScan
    \/ UseEnergyMoments

SpecApp == InitApp /\ [][NextApp]_vars

(***************************************************************************)
(* format_timestamp: the method of ViralMomentDetector, the function of    *)
(* audio_energy_detector.py and the helper of app.py.  An argument is a    *)
(* record of its Python type and its value: an int, a float (a binary64    *)
(* value) or a str.                                                        *)
(***************************************************************************)
MaxSeconds == 125

DigitChars == <<"0", "1", "2", "3", "4", "5", "6", "7", "8", "9">>

IsDigit(c) == \E k \in 1..10 : DigitChars[k] = c

DigitValue(c) == (CHOOSE k \in 1..10 : DigitChars[k] = c) - 1

\* str(x) of an int
RECURSIVE Decimal(_)
Decimal(x) ==
    IF x < 0 THEN <<"-">> \o Decimal(-x)
    ELSE IF x < 10 THEN <<DigitChars[x + 1]>>
    ELSE Decimal(x \div 10) \o <<DigitChars[(x % 10) + 1]>>

\* f"{x:02d}" of an int: at least two characters, padded with zeros behind
\* the sign
TwoDigits(x) ==
    IF x < 0 THEN (IF x > -10 THEN <<"-">> ELSE <<>>) \o Decimal(x)
    ELSE IF x < 10 THEN <<"0">> \o Decimal(x)
    ELSE Decimal(x)

\* the value of a str of decimal digits
RECURSIVE DigitsValue(_)
DigitsValue(s) ==
    IF s = <<>> THEN 0
    ELSE 10 * DigitsValue(SubSeq(s, 1, Len(s) - 1)) + DigitValue(s[Len(s)])

AllDigits(s) == s # <<>> /\ \A k \in 1..Len(s) : IsDigit(s[k])

\* int(s) of a str: blanks around, an optional sign, decimal digits; anything
\* else raises ValueError
Unsigned(s) == IF s # <<>> /\ Head(s) \in {"+", "-"} THEN Tail(s) ELSE s

ParsesAsInt(s) == AllDigits(Unsigned(Strip(s, {" "})))

ParseInt(s) ==
    IF Head(Strip(s, {" "})) = "-"
    THEN 0 - DigitsValue(Unsigned(Strip(s, {" "})))
    ELSE DigitsValue(Unsigned(Strip(s, {" "})))

IntValue(x) == [type |-> "int", value |-> x]

FloatValue(x) == [type |-> "float", value |-> x]

StrValue(s) == [type |-> "str", value |-> s]

\* int(seconds // 60) of a number: floor division rounds down, and for a
\* float that is not negative the quotient of the integral part
Minutes(number) ==
    IF number.type = "float" THEN Trunc(number.value) \div 60
    ELSE number.value \div 60

\* int(seconds % 60) of a number
Secs(number) ==
    IF number.type = "float" THEN Trunc(number.value) % 60
    ELSE number.value % 60

\* f"{minutes}:{secs:02d}"
MinutesColonSecs(number) ==
    Decimal(Minutes(number)) \o <<":">> \o TwoDigits(Secs(number))

ReturnedStr(text) == [ended |-> "returned", text |-> text]

RaisedError(exception) == [ended |-> "raised", exception |-> exception]

\* the body shared by the method of the detector and the function of the
\* audio module: str // int raises TypeError
FormatNumber(value) ==
    IF value.type = "str" THEN RaisedError("TypeError")
    ELSE ReturnedStr(MinutesColonSecs(value))

\* format_timestamp of app.py: a str goes through int(), 0 if that raises
AppFormatTimestamp(value) ==
    IF value.type = "str"
    THEN ReturnedStr(MinutesColonSecs(IntValue(
             IF ParsesAsInt(value.value) THEN ParseInt(value.value) ELSE 0)))
    ELSE ReturnedStr(MinutesColonSecs(value))

\* ViralMomentDetector.format_timestamp
DetectorFormatTimestamp(value) == FormatNumber(value)

\* format_timestamp of audio_energy_detector.py
EnergyFormatTimestamp(value) == FormatNumber(value)

\* arguments: every whole number of seconds up to MaxSeconds and some beyond,
\* floats between whole seconds, and strs that spell a number or do not
TimestampInputs ==
    { IntValue(x) : x \in 0..MaxSeconds }
    \cup { IntValue(x) : x \in {599, 600, 3599, 3600, 3725} }
    \cup { FloatValue(FLit(x, 4)) : x \in {0, 1, 239, 240, 502} }
    \cup { StrValue(s) : s \in { <<"a", "b", "c">>, <<>>, <<"1", "2", "5">>,
                                 <<"5", "9">>, <<"0">>, <<" ", "7", " ">>,
                                 <<"1", "2", ".", "5">> } }

InitStamp ==
    /\ NoLinguistic
    /\ NoAudio
    /\ NoApp
    /\ seconds \in TimestampInputs
    /\ stamp = NoStamp
    /\ report = NoReport

notShown == <<lingVars, audioVars, appVars>>

\* detector.format_timestamp(seconds)
CallDetectorFormat ==
    /\ stamp = NoStamp
    /\ seconds # NoSeconds
    /\ stamp' = [by |-> "detector"] @@ DetectorFormatTimestamp(seconds)
    /\ UNCHANGED <<seconds, report, notShown>>

\* audio_energy_detector.format_timestamp(seconds)
CallEnergyFormat ==
    /\ stamp = NoStamp
    /\ seconds # NoSeconds
    /\ stamp' = [by |-> "audio"] @@ EnergyFormatTimestamp(seconds)
    /\ UNCHANGED <<seconds, report, notShown>>

\* format_timestamp(seconds) in app.py
CallAppFormat ==
    /\ stamp = NoStamp
    /\ seconds # NoSeconds
    /\ stamp' = [by |-> "app"] @@ AppFormatTimestamp(seconds)
    /\ UNCHANGED <<seconds, report, notShown>>

NextStamp ==
    \/ CallDetectorFormat
    \/ CallEnergyFormat
    \/ CallAppFormat

SpecStamp == InitStamp /\ [][NextStamp]_vars

(***************************************************************************)
(* generate_report: the method of ViralMomentDetector and the function of  *)
(* audio_energy_detector.py.  A report is the number its headline gives    *)
(* and its entries in the order they are written; an entry holds its rank, *)
(* its two timestamps as text and the values of the moment that the other  *)
(* lines show (the layout of these numbers is left out).                   *)
(***************************************************************************)
MaxReported == 10

\* the block of one moment in the report of the detector
ViralEntry(rank, moment) ==
    [rank    |-> rank,
     start   |-> DetectorFormatTimestamp(IntValue(moment.start_time)).text,
     end     |-> DetectorFormatTimestamp(IntValue(moment.end_time)).text,
     score   |-> moment.viral_score,
     length  |-> moment.end_time - moment.start_time,
     reasons |-> moment.reasons,
     text    |-> FirstOf(moment.text, 100)]

\* ViralMomentDetector.generate_report
ViralReport(ms) ==
    IF ms = <<>> THEN [text |-> "No high-potential viral moments detected."]
    ELSE [found   |-> Len(ms),
          entries |-> AsTuple([k \in 1..Len(ms) |-> ViralEntry(k, ms[k])])]

\* the block of one moment in the report of the audio module
EnergyEntry(rank, moment) ==
    [rank     |-> rank,
     start    |-> EnergyFormatTimestamp(FloatValue(moment.start_time)).text,
     end      |-> EnergyFormatTimestamp(FloatValue(moment.end_time)).text,
     duration |-> moment.duration,
     score    |-> moment.energy_score,
     reason   |-> moment.reason]

\* generate_report of audio_energy_detector.py: the headline counts moments,
\* the loop runs over moments[:5]
EnergyReport(ms) ==
    IF ms = <<>> THEN [text |-> "No high-energy moments detected in the audio."]
    ELSE [found   |-> Len(ms),
          entries |-> AsTuple([k \in 1..Len(FirstOf(ms, 5)) |->
                                   EnergyEntry(k, FirstOf(ms, 5)[k])])]

\* a list as detect_energy_peaks returns it: up to ten moments of two frames
\* each, best first
SomePeaks ==
    AsTuple([k \in 1..MaxReported |->
        PeakOf(frames_to_time(3 * k), frames_to_time(3 * k + 2), 100 - k)])

PeakLists == { FirstOf(SomePeaks, k) : k \in 0..MaxReported }

\* the caller holds a list of moments of one of the two detectors
InitReport ==
    /\ \/ /\ InitTop
       \/ /\ NoLinguistic
          /\ NoApp
          /\ NoShow
          /\ audio_pc = "returned"
          /\ audio_fault = "none"
          /\ rms = <<>>
          /\ threshold = DefaultThreshold
          /\ peak_min_duration = FZero
          /\ rms_normalized = <<>>
          /\ frame = 0
          /\ start_frame = 0
          /\ peaks \in PeakLists
          /\ runs = <<>>

\* detector.generate_report(moments)
ReportMoments ==
    /\ pc = "analyzed"
    /\ report = NoReport
    /\ report' = [by |-> "detector"] @@ ViralReport(moments)
    /\ UNCHANGED <<seconds, stamp, notShown>>

\* generate_report(peaks) of the audio module
ReportEnergy ==
    /\ audio_pc = "returned"
    /\ report = NoReport
    /\ report' = [by |-> "audio"] @@ EnergyReport(peaks)
    /\ UNCHANGED <<seconds, stamp, notShown>>

NextReport ==
    \/ ReportMoments
    \/ ReportEnergy

SpecReport == InitReport /\ [][NextReport]_vars

(***************************************************************************)
(* Properties.                                                             *)
(***************************************************************************)
\* analyze_transcript has returned; moments holds the list it returned
Returned == pc = "analyzed"

\* segment k of the transcript passed the threshold
IsCandidate(k) == SegmentAnalysis[transcript_data[k].text].keep

\* candidates a and b are neighbours in time: no other candidate between them
Neighbours(a, b) ==
    /\ a < b
    /\ IsCandidate(a)
    /\ IsCandidate(b)
    /\ \A k \in (a + 1)..(b - 1) : ~IsCandidate(k)

\* the later segment's start_time minus the earlier one's end_time
GapBetween(a, b) ==
    transcript_data[b].start - (transcript_data[a].start + transcript_data[a].duration)

\* the returned moments that segment k went into
MomentsOf(k) == {m \in 1..Len(moments) : k \in origin[m]}

\* C1: every moment analyze_transcript returns has end_time > start_time
\* (the transcripts are in chronological order with positive durations).
C1_EndAfterStart ==
    Returned =>
        \A k \in 1..Len(moments) : moments[k].end_time > moments[k].start_time

\* C2: two candidates that are neighbours in time and more than 10 seconds
\* apart end up in two distinct returned moments.
C2_FarNeighboursApart ==
    Returned =>
        \A a, b \in 1..Len(transcript_data) :
            Neighbours(a, b) /\ GapBetween(a, b) > 10 =>
                /\ MomentsOf(a) # {}
                /\ MomentsOf(b) # {}
                /\ MomentsOf(a) \cap MomentsOf(b) = {}

\* C3: two candidates that are neighbours in time and at most 10 seconds
\* apart are combined into the same returned moment.
C3_NearNeighboursTogether ==
    Returned =>
        \A a, b \in 1..Len(transcript_data) :
            Neighbours(a, b) /\ GapBetween(a, b) <= 10 =>
                MomentsOf(a) \cap MomentsOf(b) # {}

\* C4: for any two returned moments, the start_time of the later one minus
\* the end_time of the earlier one is greater than 10 seconds.
C4_ReturnedFarApart ==
    Returned =>
        \A k, m \in 1..Len(moments) :
            k # m /\ moments[k].start_time <= moments[m].start_time =>
                moments[m].start_time - moments[k].end_time > 10

\* an iteration of the merge loop that combined next_moment into current
\* (it appended nothing to merged)
Combines == pc = "merge_loop" /\ j' = j + 1 /\ merged' = merged

\* C5: whenever _merge_nearby_moments combines two moments, the result has
\* the larger of the two viral scores, the duplicate-free set union of the two
\* reasons lists, and the first text, one space, then the second text.
C5_MergeCombines ==
    [][Combines =>
          /\ current'.viral_score \in {current.viral_score, moments[j].viral_score}
          /\ current'.viral_score >= current.viral_score
          /\ current'.viral_score >= moments[j].viral_score
          /\ BagToSet(current'.reasons) =
                 BagToSet(current.reasons) \cup BagToSet(moments[j].reasons)
          /\ \A tag \in BagToSet(current'.reasons) :
                 CopiesIn(tag, current'.reasons) = 1
          /\ current'.text = current.text \o <<" ">> \o moments[j].text]_vars

\* two moments with different scores and a shared reason have been combined
C5_Witness ==
    /\ pc = "merge_loop"
    /\ \E a, b \in 1..Len(moments) :
          /\ a < b
          /\ b < j
          /\ origin[a] \cup origin[b] \subseteq current_origin
          /\ moments[a].viral_score # moments[b].viral_score
          /\ BagToSet(moments[a].reasons) \cap BagToSet(moments[b].reasons) # {}

\* C6: the list analyze_transcript returns is in non-increasing viral_score
\* order, and moments of equal score are in the order in which they were
\* discovered in the transcript (a moment is discovered at the segment it
\* starts at).
C6_RankedStable ==
    Returned =>
        \A k, m \in 1..Len(moments) :
            k < m =>
                /\ moments[k].viral_score >= moments[m].viral_score
                /\ moments[k].viral_score = moments[m].viral_score =>
                       moments[k].start_time < moments[m].start_time

\* a returned list with a merged moment and two moments of equal score
C6_Witness ==
    /\ Returned
    /\ \E k \in 1..Len(origin) : Cardinality(origin[k]) >= 2
    /\ \E k, m \in 1..Len(moments) :
          k < m /\ moments[k].viral_score = moments[m].viral_score

\* get_top_moments has returned; top_moments holds the list it returned
TopReturned == pc = "top"

\* C7: the list get_top_moments returns is in non-increasing score order,
\* whatever the order of the list passed in.
C7_TopSortedByScore ==
    TopReturned =>
        \A k, m \in 1..Len(top_moments) :
            k < m => top_moments[k].viral_score >= top_moments[m].viral_score

\* C8: every moment get_top_moments returns carries a duration equal to its
\* end_time minus start_time, and that duration is in
\* [min_duration, max_duration].
C8_DurationRecomputed ==
    TopReturned =>
        \A k \in 1..Len(top_moments) :
            /\ "duration" \in DOMAIN top_moments[k]
            /\ top_moments[k].duration =
                   top_moments[k].end_time - top_moments[k].start_time
            /\ min_duration <= top_moments[k].duration
            /\ top_moments[k].duration <= max_duration

\* the moment with the stale duration was returned with a new one, and a
\* moment of the input was left out for its duration
C8_Witness ==
    /\ TopReturned
    /\ \E k \in 1..Len(top_moments) :
          /\ top_moments[k].text = StaleMoment.text
          /\ top_moments[k].start_time = StaleMoment.start_time
          /\ top_moments[k].duration # StaleMoment.duration
    /\ \E k \in 1..Len(moments) :
          ~(/\ min_duration <= moments[k].end_time - moments[k].start_time
            /\ moments[k].end_time - moments[k].start_time <= max_duration)

\* positions of the input list whose duration is in [min_duration, max_duration]
EligiblePositions ==
    {p \in 1..Len(moments) :
        /\ min_duration <= moments[p].end_time - moments[p].start_time
        /\ moments[p].end_time - moments[p].start_time <= max_duration}

\* the position in the input list of the k-th eligible moment
EligibleAt(k) ==
    CHOOSE p \in EligiblePositions :
        Cardinality({q \in EligiblePositions : q <= p}) = k

ExactHundredths(scores) ==
    BAdd(BAdd(BAdd(BAdd(BAdd(BAdd(
        BMulSmall(scores.energy_score, 25),
        BMulSmall(scores.hook_score, 25)),
        BMulSmall(scores.emotion_score, 15)),
        BMulSmall(scores.question_score, 15)),
        BMulSmall(scores.conflict_score, 10)),
        BMulSmall(scores.caps_score, 5)),
        BMulSmall(scores.punctuation_score, 5))

\* the weighted score is strictly greater than 0.15
ExactlyAbove(scores) == BLess(BMulSmall(FOne, 15), ExactHundredths(scores))

AllOnes(scores) == \A field \in DOMAIN scores : scores[field] = FOne

\* C10: a segment is in the pre-merge candidate set if and only if its
\* weighted score is strictly greater than 0.15, and a segment scoring 1.0 on
\* all seven dimensions has viral_score 1.0.
C10_StrictThreshold ==
    pc = "merge_entry" =>
        \A k \in 1..Len(transcript_data) :
            /\ (\E m \in 1..Len(moments) : origin[m] = {k})
                   <=> ExactlyAbove(SegmentAnalysis[transcript_data[k].text].scores)
            /\ AllOnes(SegmentAnalysis[transcript_data[k].text].scores) =>
                   \E m \in 1..Len(moments) :
                       origin[m] = {k} /\ moments[m].viral_score = 1000

\* a segment was scored by the iteration that ran last
Scored == pc = "score" /\ i > 1 /\ "none" \notin DOMAIN segment_scores

\* the text of the segment scored last
ScoredText == transcript_data[i - 1].text

\* C11: each of the seven scores of a scored segment lies in [0.0, 1.0],
\* however often keywords, hook phrases, capitals or exclamation marks repeat.
C11_ScoresInUnitInterval ==
    Scored =>
        \A dim \in DOMAIN segment_scores :
            /\ ~FLess(segment_scores[dim], FZero)
            /\ ~FLess(FOne, segment_scores[dim])

\* a text with four exclamation marks (0.3 each) was scored
C11_Witness ==
    /\ Scored
    /\ CountChar(ScoredText, "!") >= 4
    /\ segment_scores.punctuation_score = FOne
    /\ segment_scores.caps_score = FOne

\* C12: a segment whose text is empty or has no words scores 0 in all seven
\* dimensions and is not a candidate moment.
C12_NoWordsNoScore ==
    Scored /\ Split(ScoredText) = <<>> =>
        /\ \A dim \in DOMAIN segment_scores : segment_scores[dim] = FZero
        /\ DOMAIN segment_scores = DOMAIN ZeroScores
        /\ moments = <<>>

C12_Witness ==
    /\ Scored
    /\ ScoredText = <<" ">>
    /\ segment_scores.caps_score = FZero

\* the thresholds 0.5 and 0.3 of the reasons
ReasonHalf == FLit(5, 10)

ReasonThreeTenths == FLit(3, 10)

\* the tags of the dimensions of s that exceed their thresholds
TagsDue(s) ==
    {tag \in {"High-energy language", "Attention-grabbing hook",
              "Strong emotional content", "Creates curiosity", "Drama/conflict",
              "Emphasis/excitement", "Exclamation/intensity"} :
        \/ tag = "High-energy language" /\ FLess(ReasonHalf, s.energy_score)
        \/ tag = "Attention-grabbing hook" /\ FLess(ReasonThreeTenths, s.hook_score)
        \/ tag = "Strong emotional content" /\ FLess(ReasonHalf, s.emotion_score)
        \/ tag = "Creates curiosity" /\ FLess(ReasonHalf, s.question_score)
        \/ tag = "Drama/conflict" /\ FLess(ReasonHalf, s.conflict_score)
        \/ tag = "Emphasis/excitement" /\ FLess(ReasonThreeTenths, s.caps_score)
        \/ tag = "Exclamation/intensity" /\ FLess(ReasonThreeTenths, s.punctuation_score)}

\* C13: every candidate and every returned moment has a non-empty reasons
\* list; a single-segment candidate has one tag per dimension above its
\* threshold, and the fallback reason exactly when no dimension is above.
C13_ReasonsNeverEmpty ==
    /\ pc \in {"score", "merge_entry", "analyzed"} =>
           \A k \in 1..Len(moments) : moments[k].reasons # EmptyBag
    /\ pc \in {"score", "merge_entry"} =>
           \A k \in 1..Len(moments) :
               moments[k].reasons =
                   IF TagsDue(moments[k].scores) = {}
                   THEN SetToBag({"High engagement potential"})
                   ELSE SetToBag(TagsDue(moments[k].scores))

\* a candidate that has the fallback reason only
C13_Witness ==
    /\ pc = "analyzed"
    /\ Len(moments) = 1
    /\ moments[1].text = TextFallback
    /\ moments[1].reasons = SetToBag({"High engagement potential"})

\* C14: analyze_transcript called with None or an empty transcript returns
\* an empty list and raises no error.
C14_EmptyInEmptyOut ==
    transcript_kind = "none" \/ transcript_data = <<>> =>
        /\ pc \in {"idle", "analyzed", "top"}
        /\ pc = "analyzed" => moments = <<>>

C14_Witness ==
    /\ transcript_kind = "none"
    /\ pc = "analyzed"
    /\ moments = <<>>

\* C15: no call of analyze_transcript ends with an exception, whatever the
\* caller hands over (a str, a segment that is no dict, a text that is None).
C15_NeverRaises == pc # "raised"

\* C17: detect_energy_peaks lets no exception escape: when a step raises, or
\* the waveform has zero samples, the call ends returning an empty list.
C17_AudioNeverRaises ==
    /\ audio_pc \in {"idle", "scan", "run", "returned", "caught"}
    /\ audio_pc = "caught" => peaks = <<>>
    /\ AudioEnded /\ audio_fault \in {"load", "rms"} => peaks = <<>>
    /\ AudioEnded /\ rms = <<>> => peaks = <<>>

\* a step raised after a run had been closed
C17_Witness ==
    /\ audio_pc = "caught"
    /\ audio_fault = "close"
    /\ runs # <<>>
    /\ peaks = <<>>

\* every frame of the envelope has the same RMS
Flat == rms # <<>> /\ \A k \in 1..Len(rms) : rms[k] = rms[1]

\* the envelope has been normalized
Normalized == audio_pc \in {"scan", "run", "returned"} /\ rms # <<>>

\* C18: for an all-silent waveform (every frame's RMS equal) the normalized
\* envelope is all zero, no run opens and the result is the empty list, for
\* every threshold.
C18_SilenceGivesNothing ==
    Flat /\ Normalized =>
        /\ Len(rms_normalized) = Len(rms)
        /\ \A k \in 1..Len(rms_normalized) : rms_normalized[k] = FZero
        /\ audio_pc # "run"
        /\ runs = <<>>
        /\ peaks = <<>>

C18_Witness ==
    /\ rms = <<0, 0, 0>>
    /\ audio_pc = "returned"
    /\ audio_fault = "none"
    /\ rms_normalized = <<FZero, FZero, FZero>>
    /\ peaks = <<>>

\* the frames (counted from 0) above the default threshold
LoudFrames ==
    {k \in 0..(Len(rms_normalized) - 1) : FLess(DefaultThreshold, rms_normalized[k + 1])}

\* the frames L are one burst of 10 seconds, and every other frame is below
\* the hysteresis bound
OneBurst(L) ==
    /\ Cardinality(L) = FramesFor(10)
    /\ \A a, b \in L : b - a < Cardinality(L)
    /\ \A k \in 0..(Len(rms_normalized) - 1) :
           k \notin L => FLess(rms_normalized[k + 1], HysteresisBound[DefaultThreshold])

\* the time t, in seconds, is within one hop of the start of frame x: in
\* samples, t * sr lies between (x - 1) * hop_length and (x + 1) * hop_length
WithinHop(t, x) ==
    /\ ~BLess(BMulSmall(t, sr),
              BMulSmall(FFromInt(IF x = 0 THEN 0 ELSE x - 1), hop_length))
    /\ ~BLess(BMulSmall(FFromInt(x + 1), hop_length), BMulSmall(t, sr))

FirstOfBurst(L) == CHOOSE a \in L : \A b \in L : a <= b

LastOfBurst(L) == CHOOSE a \in L : \A b \in L : b <= a

\* the only moment starts and ends within one hop of burst L, which starts
\* with its first frame and ends where the frame after its last one starts
OneMomentAt(L) ==
    /\ Len(peaks) = 1
    /\ WithinHop(peaks[1].start_time, FirstOfBurst(L))
    /\ WithinHop(peaks[1].end_time, LastOfBurst(L) + 1)

DefaultCall ==
    /\ audio_pc = "returned"
    /\ audio_fault = "none"
    /\ threshold = DefaultThreshold
    /\ peak_min_duration = DefaultMinDuration

\* C19: for an envelope with one contiguous burst of 10 seconds above the
\* threshold and every other frame below the hysteresis bound, the call with
\* default parameters returns exactly one moment, which starts and ends
\* within one frame hop of the burst's start and end.
C19_OneBurstOneMoment ==
    DefaultCall /\ OneBurst(LoudFrames) => OneMomentAt(LoudFrames)

\* the burst in the middle of the recording
C19_Witness ==
    /\ DefaultCall
    /\ OneBurst(LoudFrames)
    /\ FirstOfBurst(LoudFrames) = 2
    /\ LastOfBurst(LoudFrames) = Len(rms) - 3
    /\ Len(peaks) = 1

\* the duration of the closed run, in seconds
RunDuration(run) == FSub(frames_to_time(run[2]), frames_to_time(run[1]))

\* C20: every moment in peaks has duration = end_time - start_time and at
\* least min_duration; a run shorter than min_duration is not in peaks; for a
\* positive min_duration every moment has end_time > start_time.
C20_DurationAtLeastMin ==
    audio_pc \in {"scan", "run", "returned"} =>
        /\ \A k \in 1..Len(peaks) :
               /\ peaks[k].duration = FSub(peaks[k].end_time, peaks[k].start_time)
               /\ ~FLess(peaks[k].duration, peak_min_duration)
               /\ peak_min_duration # FZero =>
                      FLess(peaks[k].start_time, peaks[k].end_time)
        /\ \A r \in 1..Len(runs) :
               FLess(RunDuration(runs[r]), peak_min_duration) =>
                   \A k \in 1..Len(peaks) :
                       peaks[k].start_time # frames_to_time(runs[r][1])

\* a run one frame short of 3 seconds was dropped and one of 3 seconds kept
C20_Witness ==
    /\ DefaultCall
    /\ Len(runs) = 2
    /\ runs[1][2] - runs[1][1] = FramesFor(3) - 1
    /\ runs[2][2] - runs[2][1] = FramesFor(3)
    /\ Len(peaks) = 1
    /\ peaks[1].start_time = frames_to_time(runs[2][1])

\* the detectors that were started in this request
LinguisticRan == pc # "not_called"

AudioRan == audio_pc # "not_called"

RequestEnded == app_pc \in {"done", "failed"}

\* C16: in a request the lookup comes first; the linguistic detector runs if
\* and only if the lookup gave a non-empty transcript; the audio detector
\* runs only if it did not and the download succeeded; never both.
C16_OneDetectorPerRequest ==
    /\ app_pc = "start" => ~LinguisticRan /\ ~AudioRan /\ top_moments = <<>>
    /\ LinguisticRan => Truthy(transcript_kind, transcript_data)
    /\ RequestEnded /\ Truthy(transcript_kind, transcript_data) => LinguisticRan
    /\ AudioRan => ~Truthy(transcript_kind, transcript_data) /\ audio_result
    /\ ~(LinguisticRan /\ AudioRan)

\* a request that fell back to the audio detector and got a moment from it
C16_Witness ==
    /\ app_pc = "done"
    /\ transcript_kind = "str"
    /\ AudioRan
    /\ ~LinguisticRan
    /\ Len(top_moments) = 1

(***************************************************************************)
(* Claims about the result of detect_energy_peaks, the timestamps, the     *)
(* reports, the scan of the envelope and the frame of the operations.      *)
(***************************************************************************)
\* the step that sorts, truncates and returns
Returns == audio_pc = "scan" /\ audio_pc' = "returned"

\* returned is a selection of found, best first, equal scores in the order
\* of discovery, and nothing left out beats or precedes an equal returned one
TopTenOf(found, returned) ==
    /\ Len(returned) = (IF Len(found) < 10 THEN Len(found) ELSE 10)
    /\ \A k \in 1..Len(returned) - 1 :
           /\ returned[k].energy_score >= returned[k + 1].energy_score
           /\ returned[k].energy_score = returned[k + 1].energy_score =>
                  FLess(returned[k].start_time, returned[k + 1].start_time)
    /\ \A k \in 1..Len(returned) : \E m \in 1..Len(found) : returned[k] = found[m]
    /\ \A m \in 1..Len(found) :
           (\A k \in 1..Len(returned) : returned[k] # found[m]) =>
               \A k \in 1..Len(returned) :
                   /\ found[m].energy_score <= returned[k].energy_score
                   /\ found[m].energy_score = returned[k].energy_score =>
                          FLess(returned[k].start_time, found[m].start_time)

\* C21: the list detect_energy_peaks returns has at most 10 moments, taken
\* from the kept runs, in non-increasing energy_score order with equal scores
\* in the order of discovery, and no kept run that was left out scores higher
\* than a returned one.
C21_TopTenByEnergy == [][Returns => /\ Len(peaks') <= 10
                                    /\ TopTenOf(peaks, peaks')]_vars

\* twelve runs were kept and ten came back, two of the four with the lowest
\* score among them
C21_Witness ==
    /\ audio_pc = "returned"
    /\ Len(runs) = 12
    /\ Len(peaks) = 10
    /\ peaks[1].energy_score > peaks[5].energy_score
    /\ peaks[5].energy_score > peaks[9].energy_score
    /\ peaks[9].energy_score = peaks[10].energy_score

\* the run a returned moment was made from
RunOf(peak) == CHOOSE r \in 1..Len(runs) : frames_to_time(runs[r][1]) = peak.start_time

\* np.mean of the normalized values of the frames of a run
RunMean(run) ==
    MeanOf(SumFrames(rms_normalized, run[1] + 1, run[2]), run[2] - run[1])

\* score is a nearest integer to 100 * mean: twice their distance is at most 1
NearestToHundredfold(score, mean) ==
    /\ ~FLess(BMulSmall(FFromInt(1), 2 * score + 1), BMulSmall(mean, 200))
    /\ ~FLess(BMulSmall(mean, 200), BMulSmall(FFromInt(1), 2 * score - 1))

\* C22: the energy_score of every returned moment is an integer in 0..100
\* and is the mean normalized amplitude of the run's frames times 100,
\* rounded to the nearest integer.
C22_ScoreIsRoundedMean ==
    audio_pc = "returned" =>
        \A k \in 1..Len(peaks) :
            /\ peaks[k].energy_score \in 0..100
            /\ NearestToHundredfold(peaks[k].energy_score, RunMean(runs[RunOf(peaks[k])]))

\* a str that spells a whole number, blanks around it allowed
SpellsNumber(s) == AllDigits(Strip(s, {" "}))

\* the whole seconds an argument stands for: the number itself, rounded down,
\* or what the str spells, and 0 for a str that spells no whole number
WholeSeconds(arg) ==
    IF arg.type = "int" THEN arg.value
    ELSE IF arg.type = "float" THEN Trunc(arg.value)
    ELSE IF SpellsNumber(arg.value) THEN DigitsValue(Strip(arg.value, {" "}))
    ELSE 0

\* "M:SS" of a number of whole seconds
MSS(x) == Decimal(x \div 60) \o <<":">> \o TwoDigits(x % 60)

\* C23: each of the three format_timestamp returns "M:SS" for every
\* non-negative number or numeric string, and "0:00" for a string that
\* cannot be parsed, without raising: 125 gives "2:05", 59 gives "0:59",
\* "abc" gives "0:00".
C23_TimestampNeverRaises ==
    stamp # NoStamp =>
        /\ stamp.ended = "returned"
        /\ stamp.text = MSS(WholeSeconds(seconds))
        /\ seconds = IntValue(125) => stamp.text = <<"2", ":", "0", "5">>
        /\ seconds = IntValue(59) => stamp.text = <<"0", ":", "5", "9">>
        /\ seconds = StrValue(<<"a", "b", "c">>) => stamp.text = <<"0", ":", "0", "0">>

\* the list a report was made from
Reported == IF report.by = "detector" THEN moments ELSE peaks

\* the fixed text for an empty list
NoMomentsText ==
    IF report.by = "detector" THEN "No high-potential viral moments detected."
    ELSE "No high-energy moments detected in the audio."

\* the timestamp a report shows for a time of its moment
ShownTime(t) == IF report.by = "detector" THEN MSS(t) ELSE MSS(Trunc(t))

\* C24: generate_report of either module lists every moment of its input
\* exactly once, in input order, the i-th with rank i, so it has as many
\* entries as the number of moments it says it found; for an empty input it
\* returns the fixed message.
C24_ReportListsAll ==
    report # NoReport =>
        IF Reported = <<>> THEN report.text = NoMomentsText
        ELSE /\ report.found = Len(Reported)
             /\ Len(report.entries) = report.found
             /\ \A k \in 1..Len(report.entries) :
                    /\ report.entries[k].rank = k
                    /\ k <= Len(Reported) =>
                           /\ report.entries[k].start = ShownTime(Reported[k].start_time)
                           /\ report.entries[k].end = ShownTime(Reported[k].end_time)

\* the normalized value of the frame with index x (counted from 0)
ValueAt(x) == rms_normalized[x + 1]

AboveThreshold(x) == FLess(threshold, ValueAt(x))

AboveBound(x) == FLess(HysteresisBound[threshold], ValueAt(x))

\* the frames start..(end - 1) are a run as the scan makes it
WellFormedRun(start, end) ==
    /\ start < end
    /\ AboveThreshold(start)
    /\ \A x \in start..(end - 1) : AboveBound(x)

\* the frames that closed runs, and the frames inside runs
InRuns(x) == \E r \in 1..Len(runs) : runs[r][1] <= x /\ x < runs[r][2]

\* C25: a run opens only at a frame strictly above threshold, goes on over
\* every following frame strictly above threshold * 0.8 and closes at the
\* first frame at or below that bound, or at the end of the signal; every
\* frame of a run is above threshold * 0.8 and its first frame above
\* threshold.  Frames the scan has passed outside every run are not above
\* threshold.
C25_Hysteresis ==
    audio_pc \in {"scan", "run", "returned"} =>
        /\ \A r \in 1..Len(runs) :
               /\ WellFormedRun(runs[r][1], runs[r][2])
               /\ runs[r][2] = Len(rms_normalized) \/ ~AboveBound(runs[r][2])
        /\ audio_pc = "run" =>
               /\ AboveThreshold(start_frame)
               /\ \A x \in start_frame..(frame - 1) : AboveBound(x)
        /\ \A x \in 0..(frame - 1) :
               x < Len(rms_normalized) /\ ~InRuns(x) /\ ~(audio_pc = "run" /\ x >= start_frame) =>
                   ~AboveThreshold(x)

\* a run that went on over a frame between the bound and the threshold and
\* was closed by a frame at or below the bound
C25_Witness ==
    /\ audio_pc = "returned"
    /\ \E r \in 1..Len(runs) :
           /\ \E x \in runs[r][1]..(runs[r][2] - 1) : ~AboveThreshold(x)
           /\ runs[r][2] < Len(rms_normalized)

\* how often a phrase occurs in a text
OccurrencesOf(phrase, text) ==
    Cardinality({k \in 1..(Len(text) - Len(phrase) + 1) :
                     SubSeq(text, k, k + Len(phrase) - 1) = phrase})

\* the occurrences of all hook phrases in a text
RECURSIVE HookOccurrences(_, _)
HookOccurrences(phrases, text) ==
    IF phrases = {} THEN 0
    ELSE LET phrase == CHOOSE x \in phrases : TRUE
         IN  OccurrencesOf(phrase, text) + HookOccurrences(phrases \ {phrase}, text)

\* min(1.0, 0.4 * count)
HookScoreFor(count) ==
    IF count = 0 THEN FZero
    ELSE IF count = 1 THEN FLit(4, 10)
    ELSE IF count = 2 THEN FLit(8, 10)
    ELSE FOne

\* C26: the hook score of a segment is min(1.0, 0.4 * the number of
\* occurrences of hook phrases in the lowercased text), every occurrence
\* counting: the same phrase twice scores 0.8, three or more occurrences 1.0.
C26_HookCountsOccurrences ==
    Scored /\ Split(ScoredText) # <<>> =>
        segment_scores.hook_score =
            HookScoreFor(HookOccurrences(hook_phrases, Lower(ScoredText)))

\* C27: no operation changes what the caller passed in: across every step
\* of analyze_transcript the transcript is as it was, and across
\* get_top_moments and generate_report every moment of the caller's list has
\* the fields and values it had before the call.
C27_InputsUnchanged ==
    [][/\ transcript_data' = transcript_data
       /\ pc = "analyzed" => moments' = moments]_vars

\* the start times and the end times of the segments a moment was made from
StartsOf(segments) == { transcript_data[s].start : s \in segments }

EndsOf(segments) ==
    { transcript_data[s].start + transcript_data[s].duration : s \in segments }

\* C28: a returned moment covers all the candidates it was merged from: its
\* start_time is the least of their start times and its end_time the
\* greatest of their end times.
C28_MergedCoversAll ==
    Returned =>
        \A k \in 1..Len(moments) :
            /\ moments[k].start_time \in StartsOf(origin[k])
            /\ \A t \in StartsOf(origin[k]) : moments[k].start_time <= t
            /\ moments[k].end_time \in EndsOf(origin[k])
            /\ \A t \in EndsOf(origin[k]) : t <= moments[k].end_time

\* C29: the moments detect_energy_peaks returns are pairwise disjoint in
\* time: no frame belongs to two runs, a run starts at least one frame behind
\* the frame that closed the run before it, and of two returned moments the
\* end_time of one is strictly before the start_time of the other.
C29_MomentsDisjoint ==
    audio_pc \in {"scan", "run", "returned"} =>
        /\ \A r \in 1..Len(runs) - 1 : runs[r][2] + 1 <= runs[r + 1][1]
        /\ \A k, m \in 1..Len(peaks) :
               k # m =>
                   \/ FLess(peaks[k].end_time, peaks[m].start_time)
                   \/ FLess(peaks[m].end_time, peaks[k].start_time)

\* two returned moments with a single frame between them
C29_Witness ==
    /\ audio_pc = "returned"
    /\ Len(peaks) >= 2
    /\ \E r \in 1..Len(runs) - 1 :
           /\ runs[r][2] + 1 = runs[r + 1][1]
           /\ \E k, m \in 1..Len(peaks) :
                  /\ peaks[k].end_time = frames_to_time(runs[r][2])
                  /\ peaks[m].start_time = frames_to_time(runs[r + 1][1])

\* a step of the outer or of the inner loop that does not open a run
LoopStep ==
    \/ audio_pc = "scan" /\ audio_pc' = "scan"
    \/ audio_pc = "run" /\ audio_pc' \in {"run", "scan"}

\* C30: the frame scan ends for every finite envelope and every threshold:
\* the frame index never moves backwards, it grows by one on every step of
\* the outer and inner loops, also when a run is closed or discarded, and
\* the function returns (or its handler does) once the index has passed the
\* last frame.
C30_ScanTerminates ==
    /\ [][/\ frame' >= frame
          /\ LoopStep => frame' = frame + 1
          /\ audio_pc' = "returned" /\ audio_pc = "scan" =>
                 frame >= Len(rms_normalized)]_vars
    /\ <>AudioEnded

\* the scan has returned after it closed two runs and discarded one of them
C30_Witness ==
    /\ audio_pc = "returned"
    /\ audio_fault = "none"
    /\ Len(runs) = 2
    /\ Len(peaks) = 1
    /\ frame >= Len(rms_normalized)
====
